---------------------------- MODULE Spec2Model ----------------------------
(***************************************************************************)
(* The simulation core of src/main.rs (a Bevy 0.12 application): the       *)
(* GameState machine, the per-frame InGame systems, the resources and the  *)
(* entities they read and write.                                           *)
(*                                                                         *)
(* Fixed-point units (the source computes in f32):                         *)
(*   time      1 unit = 1/TicksPerSec s                                    *)
(*   speed     1 unit = 1/SpeedUnit of the source's Speed                  *)
(*   position  1 unit = 1/PosUnit of a world unit                          *)
(*   heading   1 step = 1/30 rad, the angle of one rotate_z call           *)
(*   progress  stored as the numerator over TOTAL_H                        *)
(*   direction vectors in thousandths                                      *)
(* The units are chosen so that every product of the source's constants    *)
(* with a frame delta of Deltas is an integer.                             *)
(*                                                                         *)
(* One frame is FrameStart (First, PreUpdate and StateTransition of        *)
(* Bevy's Main schedule), then one step per Update system of the current   *)
(* GameState in the order drawn for the frame (the systems are registered  *)
(* without ordering constraints), then EndFrame (the deferred Commands of  *)
(* Update are applied).                                                    *)
(***************************************************************************)
EXTENDS Integers, Sequences, FiniteSets, Bags, TLC

\* ---------------------------------------------------------------- constants
TILE_W == 16
TILE_H == 16
WW == 1000
TURN_SPEED == 20
CAR_THRUST == 20
MAX_SPEED == 40
FRICTION == 20
MAX_CAR_HEALTH == 200
MIN_SPEED_TO_STEER == 0
TURBO_BOOST == 60
TURBO_INTERVAL_SEC == 5
BULLET_TIME == 1
BULLET_SPEED == 2000
BULLET_HIT_BOX == 10
ROAD_WIDTH == 5
ROAD_HEIGHT == 600
ROAD_SCALE == 5
ZOMBIE_SPEED == 255
ZOMBIE_ATTACK == 2

\* ------------------------------------------------------- fixed-point units
TicksPerSec == 20
SpeedUnit == 5
PosUnit == 20
\* one rotate_z step is TURN_SPEED * 0.1 * (1/60) = 1/30 rad; pi is 94.25 steps
HalfTurn == 94
Milli == 1000

\* ------------------------------------------------------------------ bounds
\* frames one behaviour runs through
MaxFrames == 4
\* scheduling orders of the InGame systems that are explored
NumOrders == 2
\* draws of the road's random walk before they repeat
MaxWalk == 3

\* frame deltas, in time units: 50 ms, and 250 ms (the cap of Time<Virtual>)
Deltas == {1, 5}

\* ----------------------------------------------------------------- helpers
Abs(v) == IF v < 0 THEN -v ELSE v

Min(a, b) == IF a <= b THEN a ELSE b

Max(a, b) == IF a >= b THEN a ELSE b

\* f32::clamp
Clamp(v, lo, hi) == IF v < lo THEN lo ELSE IF v > hi THEN hi ELSE v

\* division that truncates toward zero (the fixed-point image of a float product)
TruncDiv(v, q) == IF v >= 0 THEN v \div q ELSE -((-v) \div q)

\* f32::floor and f32::ceil of v / q, as i32
FloorDiv(v, q) == v \div q

CeilDiv(v, q) == -((-v) \div q)

\* world units to position units
W2P(w) == w * PosUnit

\* one tile edge, TILE_W * ROAD_SCALE world units
TileSize == W2P(TILE_W * ROAD_SCALE)

\* total_h of update_car_progress: the road length
TOTAL_H == W2P(TILE_H * ROAD_SCALE * ROAD_HEIGHT)

\* sin of k heading steps in thousandths, 0 <= k <= HalfTurn (Bhaskara's formula)
SinHalf(k) == (16 * k * (HalfTurn - k) * Milli) \div (5 * HalfTurn * HalfTurn - 4 * k * (HalfTurn - k))

SinMilli(k) == LET m == k % (2 * HalfTurn) IN IF m <= HalfTurn THEN SinHalf(m) ELSE -SinHalf(m - HalfTurn)

CosMilli(k) == SinMilli(k + HalfTurn \div 2)

\* the direction -Vec3::Y in place of Vec3::Y
ForwardVecDown(rot) == [x |-> SinMilli(rot), y |-> -CosMilli(rot)]

\* Quat::from_rotation_z(rot) * Vec3::Y = (-sin, cos)
ForwardVec(rot) == [x |-> -SinMilli(rot), y |-> CosMilli(rot)]

\* ---------------------------------------------------------------- settings
Difficulties == {"Easy", "Moderate", "Hard"}

DefaultSettings == [difficulty |-> "Easy", entity_count |-> "FiveThousand", god_mode |-> FALSE]

update_difficulty(s) == [s EXCEPT !.difficulty = CASE @ = "Easy" -> "Moderate" [] @ = "Moderate" -> "Hard" [] OTHER -> "Easy"]

update_entity_count(s) == [s EXCEPT !.entity_count = CASE @ = "Hundred" -> "FiveHundred" [] @ = "FiveHundred" -> "Thousand" [] @ = "Thousand" -> "FiveThousand" [] @ = "FiveThousand" -> "TenThousand" [] @ = "TenThousand" -> "TwentyThousand" [] @ = "TwentyThousand" -> "FiftyThousand" [] OTHER -> "Hundred"]

get_num_max_zombies(s) == CASE s.entity_count = "Hundred" -> 100 [] s.entity_count = "FiveHundred" -> 500 [] s.entity_count = "Thousand" -> 1000 [] s.entity_count = "FiveThousand" -> 5000 [] s.entity_count = "TenThousand" -> 10000 [] s.entity_count = "TwentyThousand" -> 20000 [] OTHER -> 50000


\* ------------------------------------------------------------- vector math
RECURSIVE SqrtIter(_, _, _)
SqrtIter(n, lo, hi) == IF lo >= hi THEN lo ELSE LET mid == (lo + hi + 1) \div 2 IN IF mid * mid <= n THEN SqrtIter(n, mid, hi) ELSE SqrtIter(n, lo, mid - 1)

\* integer square root
ISqrt(n) == SqrtIter(n, 0, 46340)

\* Vec3::normalize, in thousandths; nan when the vector is zero (0 * inf)
Normalize(dx, dy, dz) == LET m == Max(Abs(dx), Max(Abs(dy), Abs(dz)))
                             k == m \div 20000 + 1
                             a == TruncDiv(dx, k)
                             b == TruncDiv(dy, k)
                             c == TruncDiv(dz, k)
                             len == ISqrt(a * a + b * b + c * c)
                         IN IF m = 0 THEN [x |-> 0, y |-> 0, nan |-> TRUE]
                            ELSE [x |-> TruncDiv(a * Milli, len), y |-> TruncDiv(b * Milli, len), nan |-> FALSE]

\* (a - b).abs() <= box on f32 values; false when either side is NaN
Near(a, b, box) == Abs(a - b) <= W2P(box)

RECURSIVE FnSum(_)
FnSum(f) == IF DOMAIN f = {} THEN 0 ELSE LET e == CHOOSE e \in DOMAIN f : TRUE IN f[e] + FnSum([x \in DOMAIN f \ {e} |-> f[x]])

\* the elements of bag B that lie in S, with their multiplicities
BagFilter(B, S) == [e \in DOMAIN B \cap S |-> B[e]]

\* the bag of f[e] for the elements e of bag B
BagMap(B, f) == [r \in {f[e] : e \in DOMAIN B} |-> FnSum([e \in {e \in DOMAIN B : f[e] = r} |-> B[e]])]

\* the number of elements of bag B, with multiplicity
BagSize(B) == FnSum(B)

\* the bag of n copies of e
BagOf(e, n) == IF n > 0 THEN [x \in {e} |-> n] ELSE EmptyBag

\* ------------------------------------------------------------------- state
VARIABLES
  state,         \* State<GameState>
  next_state,    \* NextState<GameState>: "None" or the state requested
  settings,      \* GameSettings (difficulty, entity_count, god_mode)
  cars,          \* the entities with Car: Speed, TurnSpeed, Transform, Turbo
  car_health,    \* CarHealth
  car_progress,  \* CarProgress, as a numerator over TOTAL_H
  player_score,  \* PlayerScore
  road_tiles,    \* RoadTiles, as the walks of the roads whose tiles it holds
  obstacles,     \* VehicleObstacleTiles
  zombies,       \* bag of the entities with Zombie (doomed: a despawn is queued)
  bullets,       \* bag of the entities with Bullet (doomed: a despawn is queued)
  cmd_spawn,     \* the spawn Commands queued in this frame
  ev_hit,        \* Events<ZombieHitPlayer> not yet read by handle_zombie_player_hit
  ev_dead,       \* Events<PlayerDeadEvent> not yet read by handle_player_dead_event
  input,         \* Input<KeyCode>, Input<MouseButton>, Interaction and the frame's random draws
  delta,         \* Time::delta of the frame
  sched,         \* the Update systems still to run in this frame, in order
  phase,         \* "idle" between frames, "update" inside the Update schedule
  frame,         \* frames begun
  app_exit       \* an AppExit event was sent

vars == <<state, next_state, settings, cars, car_health, car_progress, player_score, road_tiles, obstacles, zombies, bullets, cmd_spawn, ev_hit, ev_dead, input, delta, sched, phase, frame, app_exit>>

GameStates == {"LoadAssets", "MainMenu", "SettingsMenu", "GameInit", "InGame", "PauseMenu", "GameOver"}

NoEvents == [old |-> 0, new |-> 0]

\* EventReader::len
EvLen(ev) == ev.old + ev.new

\* EventWriter::send, n times
EvSend(ev, n) == [ev EXCEPT !.new = @ + n]

\* Events::update, run in First: the events of the frame before the last are dropped
EvUpdate(ev) == [old |-> ev.new, new |-> 0]

NoCursor == [has |-> FALSE, dx |-> 0, dy |-> 0]

\* the draws of one frame from rand::thread_rng(): every candidate of a
\* spawn batch and every zombie of update_zombies sees the same draws
DefaultRng == [zone |-> 1, sx |-> 0, sy |-> 0, frac |-> 0, special |-> 0, side |-> TRUE, coin |-> FALSE, jx |-> 0, jy |-> 0]

NoInput == [w |-> FALSE, a |-> FALSE, s |-> FALSE, d |-> FALSE, space |-> FALSE, escape |-> FALSE, mouse |-> FALSE, timer |-> FALSE, cursor |-> NoCursor, click |-> "none", rng |-> DefaultRng]

NoSpawn == [zombies |-> EmptyBag, bullets |-> EmptyBag]

\* ------------------------------------------------------------- the road
\* let bottom_y = -10
BOTTOM_Y == -10

\* let top_y = ROAD_HEIGHT as i32
TOP_Y == ROAD_HEIGHT

\* no row is a top row: the walk steps in row ROAD_HEIGHT as well
is_top_y_none(j) == FALSE

\* let is_top_y = j == top_y || j == top_y - 1
is_top_y(j) == j = TOP_Y \/ j = TOP_Y - 1

\* the rows up to j at which the walk steps: j % 5 == 0 && !is_top_y
WalkRows(j) == {r \in BOTTOM_Y..j : r % 5 = 0 /\ ~is_top_y(r)}

\* a draw of rng.gen_range(-2..=2) in place of gen_range(-1..=1)
WalkDrawDouble(walk, k) == 2 * walk[(k % Len(walk)) + 1]

\* the k-th draw (from 0) of rng.gen_range(-1..=1): the draws of one road repeat walk
WalkDraw(walk, k) == walk[(k % Len(walk)) + 1]

\* the sum of the first k draws of one period of walk
RECURSIVE DrawSum(_, _)
DrawSum(walk, k) == IF k <= 0 THEN 0 ELSE DrawSum(walk, k - 1) + WalkDraw(walk, k - 1)

\* n_offset after k walk steps: the sum of the first k draws
NOffset(walk, k) == IF k <= 0 THEN 0 ELSE (k \div Len(walk)) * DrawSum(walk, Len(walk)) + DrawSum(walk, k % Len(walk))

\* offset in row j: the value n_offset had before the last walk step
RowOffset(walk, j) == NOffset(walk, Cardinality(WalkRows(j)) - 1)

\* road_tiles.0.insert((i + offset, j)) for i in left_x..=right_x, for every row:
\* the tiles one call of spawn_road inserts when its walk draws are walk
RoadTilesOf(walk) == LET off == [j \in BOTTOM_Y..TOP_Y |-> RowOffset(walk, j)]
                     IN {<<i + off[j], j>> : i \in 0..ROAD_WIDTH, j \in BOTTOM_Y..TOP_Y}

\* the HashSet of RoadTiles, kept as the set of the walks whose tiles were inserted
RoadTileSet(tiles) == UNION {RoadTilesOf(walk) : walk \in tiles}

\* road_tiles.0.contains(&(i, j))
HasTile(tiles, i, j) == \E walk \in tiles : j \in BOTTOM_Y..TOP_Y /\ i - RowOffset(walk, j) \in 0..ROAD_WIDTH


\* ------------------------------------------------------------ the vehicle
\* setup_game: the Car entity
NewCar == [x |-> W2P(150), y |-> W2P(50), rot |-> 0, speed |-> 10 * SpeedUnit, turn_speed |-> 0, turbo |-> 0]

\* Stopwatch::tick; the elapsed time is kept up to just past TURBO_INTERVAL_SEC
TurboTick(t, d) == Min(t + d, TURBO_INTERVAL_SEC * TicksPerSec + 1)

\* update_car_input without its final clamp
ClampSpeedNone(v) == v

\* speed.0.clamp(-MAX_SPEED + MAX_SPEED / 2.0, MAX_SPEED)
ClampSpeed(v) == Clamp(v, (-MAX_SPEED + MAX_SPEED \div 2) * SpeedUnit, MAX_SPEED * SpeedUnit)

\* the friction branch of update_car_input without its snaps to 0
FrictionNoSnap(c, v, d) == IF c.s THEN v - (FRICTION * SpeedUnit * d * 12) \div (TicksPerSec * 10)
                           ELSE IF c.w THEN v + (CAR_THRUST * SpeedUnit * d) \div TicksPerSec
                           ELSE IF v > 0 THEN v - (FRICTION * SpeedUnit * d) \div TicksPerSec
                           ELSE v + (FRICTION * SpeedUnit * d) \div TicksPerSec

\* the friction branch of update_car_input
Friction(c, v, d) == IF c.s
                     THEN IF Abs(v) <= 10 * SpeedUnit THEN 0
                          ELSE v - (FRICTION * SpeedUnit * d * 12) \div (TicksPerSec * 10)
                     ELSE IF c.w THEN v + (CAR_THRUST * SpeedUnit * d) \div TicksPerSec
                     ELSE IF Abs(v) <= 5 * SpeedUnit THEN 0
                     ELSE IF v > 0 THEN v - (FRICTION * SpeedUnit * d) \div TicksPerSec
                     ELSE IF v < 0 THEN v + (FRICTION * SpeedUnit * d) \div TicksPerSec
                     ELSE 0

update_car_input(c, car, d) == [car EXCEPT !.turn_speed = IF c.a THEN TURN_SPEED ELSE IF c.d THEN -TURN_SPEED ELSE 0,
                                           !.speed = ClampSpeed(Friction(c, car.speed, d))]

\* road_tiles.0.contains(&(x1, y1)) || road_tiles.0.contains(&(x2, y2))
is_on_road(tiles, x, y) == \/ HasTile(tiles, CeilDiv(x, TileSize), CeilDiv(y, TileSize))
                           \/ HasTile(tiles, FloorDiv(x, TileSize), FloorDiv(y, TileSize))

\* turbo.0.elapsed().as_secs_f32() < 0.2
TurboActive(car) == 5 * car.turbo < TicksPerSec

\* the body of car_manual_input_system for the one Car
DriveCar(car, c, d, tiles) ==
  LET u == update_car_input(c, car, d)
      on == is_on_road(tiles, car.x, car.y)
      v == IF TurboActive(car) THEN u.speed + TURBO_BOOST * SpeedUnit ELSE u.speed
      rot == IF Abs(v) > MIN_SPEED_TO_STEER * SpeedUnit THEN (car.rot + u.turn_speed \div TURN_SPEED) % (2 * HalfTurn) ELSE car.rot
      \* speed * 0.1 (or 0.05) * delta_seconds * 100, in position units
      dist == IF on THEN (v * d * 10 * PosUnit) \div (SpeedUnit * TicksPerSec) ELSE (v * d * 5 * PosUnit) \div (SpeedUnit * TicksPerSec)
      f == ForwardVec(rot)
  IN [u EXCEPT !.speed = v, !.rot = rot,
               !.x = car.x + TruncDiv(f.x * dist, Milli),
               !.y = car.y + TruncDiv(f.y * dist, Milli)]

\* the system at the head of the frame's order runs
Runs(sys) == /\ phase = "update"
             /\ sched # <<>>
             /\ Head(sched) = sys
             /\ sched' = Tail(sched)
             /\ UNCHANGED <<state, input, delta, phase, frame>>

car_manual_input_system ==
  /\ Runs("car_manual_input_system")
  /\ cars' = IF cars = <<>> THEN cars ELSE <<DriveCar(cars[1], input, delta, road_tiles)>>
  /\ UNCHANGED <<next_state, settings, car_health, car_progress, player_score, road_tiles, obstacles, zombies, bullets, cmd_spawn, ev_hit, ev_dead, app_exit>>

\* some registered obstacle is within 25 world units of the car on both axes
\* the test of check_obstacle_collision on x alone
ObstacleHitColumn(car, obs) == \E i \in 1..Len(obs) : Near(obs[i].x, car.x, 25)

ObstacleHit(car, obs) == \E i \in 1..Len(obs) : Near(obs[i].x, car.x, 25) /\ Near(obs[i].y, car.y, 25)

check_obstacle_collision ==
  /\ Runs("check_obstacle_collision")
  /\ cars' = IF cars # <<>> /\ ObstacleHit(cars[1], obstacles) THEN <<[cars[1] EXCEPT !.speed = -6 * SpeedUnit]>> ELSE cars
  /\ UNCHANGED <<next_state, settings, car_health, car_progress, player_score, road_tiles, obstacles, zombies, bullets, cmd_spawn, ev_hit, ev_dead, app_exit>>

\* handle_turbo_input without the test of the elapsed time: every trigger resets
TurboInputEager(car, space, d) == IF space THEN [car EXCEPT !.turbo = 0] ELSE [car EXCEPT !.turbo = TurboTick(car.turbo, d)]

\* the body of handle_turbo_input for the one Car
TurboInput(car, space, d) == LET t == TurboTick(car.turbo, d)
                             IN IF t <= TURBO_INTERVAL_SEC * TicksPerSec THEN [car EXCEPT !.turbo = t]
                                ELSE IF ~space THEN [car EXCEPT !.turbo = t]
                                ELSE [car EXCEPT !.turbo = 0]

handle_turbo_input ==
  /\ Runs("handle_turbo_input")
  /\ cars' = IF cars = <<>> THEN cars ELSE <<TurboInput(cars[1], input.space, delta)>>
  /\ UNCHANGED <<next_state, settings, car_health, car_progress, player_score, road_tiles, obstacles, zombies, bullets, cmd_spawn, ev_hit, ev_dead, app_exit>>

update_car_progress ==
  /\ Runs("update_car_progress")
  /\ car_progress' = IF cars = <<>> THEN car_progress ELSE cars[1].y
  /\ UNCHANGED <<next_state, settings, cars, car_health, player_score, road_tiles, obstacles, zombies, bullets, cmd_spawn, ev_hit, ev_dead, app_exit>>

\* handle_game_complete without the assignment car_progress.0 = 1.0
GameCompleteUnclamped(p, ns) == IF 10 * p < -TOTAL_H \/ p >= TOTAL_H THEN [progress |-> p, next |-> "GameOver"]
                                ELSE [progress |-> p, next |-> ns]

\* what handle_game_complete leaves in (CarProgress, NextState)
GameComplete(p, ns) == IF 10 * p < -TOTAL_H THEN [progress |-> p, next |-> "GameOver"]
                       ELSE IF p < TOTAL_H THEN [progress |-> p, next |-> ns]
                       ELSE [progress |-> TOTAL_H, next |-> "GameOver"]

handle_game_complete ==
  /\ Runs("handle_game_complete")
  /\ car_progress' = GameComplete(car_progress, next_state).progress
  /\ next_state' = GameComplete(car_progress, next_state).next
  /\ UNCHANGED <<settings, cars, car_health, player_score, road_tiles, obstacles, zombies, bullets, cmd_spawn, ev_hit, ev_dead, app_exit>>

handle_escape_key ==
  /\ Runs("handle_escape_key")
  /\ next_state' = IF input.escape THEN "PauseMenu" ELSE next_state
  /\ UNCHANGED <<settings, cars, car_health, car_progress, player_score, road_tiles, obstacles, zombies, bullets, cmd_spawn, ev_hit, ev_dead, app_exit>>


\* ------------------------------------------------- enemies and projectiles
\* a Zombie entity: Transform (nan: the translation is NaN) and its queued despawn
Zombie(x, y) == [x |-> x, y |-> y, nan |-> FALSE, doomed |-> FALSE]

\* a Bullet entity: Transform, BulletDirection, the time since Bullet(Instant::now())
Bullet(x, y, dx, dy, dz) == [x |-> x, y |-> y, dx |-> dx, dy |-> dy, dz |-> dz, age |-> 0, doomed |-> FALSE]

\* x_dist <= 20.0 && y_dist <= 20.0
ZombieTouches(z, car) == ~z.nan /\ Near(z.x, car.x, 20) /\ Near(z.y, car.y, 20)

\* the ZombieHitPlayer events check_zombie_collision sends
ContactCount(zs, car) == BagSize(BagFilter(zs, {z \in DOMAIN zs : ZombieTouches(z, car)}))

check_zombie_collision ==
  /\ Runs("check_zombie_collision")
  /\ ev_hit' = IF cars = <<>> THEN ev_hit ELSE EvSend(ev_hit, ContactCount(zombies, cars[1]))
  /\ UNCHANGED <<next_state, settings, cars, car_health, car_progress, player_score, road_tiles, obstacles, zombies, bullets, cmd_spawn, ev_dead, app_exit>>

\* handle_zombie_player_hit without the god_mode test of its early return
ZombiePlayerHitMortal(health, hits, dead, god_mode) ==
  IF EvLen(hits) = 0 THEN [health |-> health, hits |-> hits, dead |-> dead]
  ELSE LET h == health - ZOMBIE_ATTACK * EvLen(hits)
       IN [health |-> h, hits |-> NoEvents, dead |-> IF h <= 0 THEN EvSend(dead, 1) ELSE dead]

\* what handle_zombie_player_hit leaves in (CarHealth, the reader, PlayerDeadEvent)
ZombiePlayerHit(health, hits, dead, god_mode) ==
  IF EvLen(hits) = 0 \/ god_mode THEN [health |-> health, hits |-> hits, dead |-> dead]
  ELSE LET h == health - ZOMBIE_ATTACK * EvLen(hits)
       IN [health |-> h, hits |-> NoEvents, dead |-> IF h <= 0 THEN EvSend(dead, 1) ELSE dead]

handle_zombie_player_hit ==
  /\ Runs("handle_zombie_player_hit")
  /\ LET r == ZombiePlayerHit(car_health, ev_hit, ev_dead, settings.god_mode)
     IN /\ car_health' = r.health
        /\ ev_hit' = r.hits
        /\ ev_dead' = r.dead
  /\ UNCHANGED <<next_state, settings, cars, car_progress, player_score, road_tiles, obstacles, zombies, bullets, cmd_spawn, app_exit>>

handle_player_dead_event ==
  /\ Runs("handle_player_dead_event")
  /\ IF EvLen(ev_dead) = 0
     THEN UNCHANGED <<ev_dead, next_state>>
     ELSE ev_dead' = NoEvents /\ next_state' = "GameOver"
  /\ UNCHANGED <<settings, cars, car_health, car_progress, player_score, road_tiles, obstacles, zombies, bullets, cmd_spawn, ev_hit, app_exit>>

\* the bullet is within BULLET_HIT_BOX of the zombie on both axes
BulletHits(b, z) == ~z.nan /\ Near(b.x, z.x, BULLET_HIT_BOX) /\ Near(b.y, z.y, BULLET_HIT_BOX)

\* the bullets (with multiplicity) that hit zombie z
HitsOn(bs, z) == BagSize(BagFilter(bs, {b \in DOMAIN bs : BulletHits(b, z)}))

\* bullet_hit_zombie leaving the inner loop at the first hit: a zombie scores once
HitPairsOncePerZombie(zs, bs) == FnSum([z \in DOMAIN zs |-> zs[z] * (IF HitsOn(bs, z) > 0 THEN 1 ELSE 0)])

\* the (zombie, bullet) pairs bullet_hit_zombie scores
HitPairs(zs, bs) == FnSum([z \in DOMAIN zs |-> zs[z] * HitsOn(bs, z)])

\* commands.entity(e).despawn() for the zombies that satisfy P
DespawnWhere(zs, S) == BagMap(zs, [z \in DOMAIN zs |-> IF z \in S THEN [z EXCEPT !.doomed = TRUE] ELSE z])

bullet_hit_zombie ==
  /\ Runs("bullet_hit_zombie")
  /\ player_score' = player_score + HitPairs(zombies, bullets)
  /\ zombies' = DespawnWhere(zombies, {z \in DOMAIN zombies : HitsOn(bullets, z) > 0})
  /\ UNCHANGED <<next_state, settings, cars, car_health, car_progress, road_tiles, obstacles, bullets, cmd_spawn, ev_hit, ev_dead, app_exit>>

\* the sweep of the zombies far ahead of the car in place of those far behind
TooFarAhead(z, car) == z.nan \/ z.y - car.y > W2P(700)

\* not (car.y - zombie.y <= 700.0); a NaN comparison is false
TooFarBehind(z, car) == z.nan \/ car.y - z.y > W2P(700)

despawn_zombies ==
  /\ Runs("despawn_zombies")
  /\ zombies' = IF cars = <<>> THEN zombies ELSE DespawnWhere(zombies, {z \in DOMAIN zombies : TooFarBehind(z, cars[1])})
  /\ UNCHANGED <<next_state, settings, cars, car_health, car_progress, player_score, road_tiles, obstacles, bullets, cmd_spawn, ev_hit, ev_dead, app_exit>>

\* rng.gen_range(lo..hi) in world units, for the draw frac/1000 of the unit interval
Range(lo, hi, frac) == W2P(lo) + (W2P(hi - lo) * frac) \div Milli

\* one zombie's step in update_zombies
MoveZombie(z, car, rng, d) ==
  LET target_y == IF ~z.nan /\ z.y - car.y > W2P(500) /\ rng.coin THEN car.y + Range(500, 1500, rng.frac) ELSE car.y
      dir == Normalize(car.x - z.x, target_y - z.y, 0)
  IN IF z.nan \/ dir.nan THEN [z EXCEPT !.x = 0, !.y = 0, !.nan = TRUE]
     ELSE [z EXCEPT !.x = z.x + TruncDiv((dir.x + rng.jx) * ZOMBIE_SPEED * PosUnit * d, Milli * TicksPerSec),
                    !.y = z.y + TruncDiv((dir.y + rng.jy) * ZOMBIE_SPEED * PosUnit * d, Milli * TicksPerSec)]

update_zombies ==
  /\ Runs("update_zombies")
  /\ zombies' = IF cars = <<>> THEN zombies ELSE BagMap(zombies, [z \in DOMAIN zombies |-> MoveZombie(z, cars[1], input.rng, delta)])
  /\ UNCHANGED <<next_state, settings, cars, car_health, car_progress, player_score, road_tiles, obstacles, bullets, cmd_spawn, ev_hit, ev_dead, app_exit>>

\* (max_zombies as f32 * car_progress.0 + 5.0).min(max_zombies as f32) as usize
\* num_zombies without the 5 added to max_zombies * car_progress
NumZombiesNoFloor(s, p) == LET max_zombies == get_num_max_zombies(s)
                           IN Max(0, Min(FloorDiv((max_zombies \div 100) * p, TOTAL_H \div 100), max_zombies))

NumZombies(s, p) == LET max_zombies == get_num_max_zombies(s)
                    IN Max(0, Min(FloorDiv((max_zombies \div 100) * p, TOTAL_H \div 100) + 5, max_zombies))

\* car_progress.0 >= tenths / 10
ProgressAtLeast(p, tenths) == 10 * p >= tenths * TOTAL_H

is_enable_road_zombies(s, p) == CASE s.difficulty = "Easy" -> ProgressAtLeast(p, 7) [] s.difficulty = "Moderate" -> ProgressAtLeast(p, 6) [] OTHER -> TRUE

\* is_enable_half_road_zombies true at every difficulty
is_enable_half_road_always(s, p) == TRUE

is_enable_half_road_zombies(s, p) == CASE s.difficulty = "Easy" -> ProgressAtLeast(p, 4) [] OTHER -> TRUE

\* the placement of a candidate whose first draw is below normal_zombie_probability
NormalPlace(car, rng) ==
  LET x == W2P(rng.sx)
      y == W2P(rng.sy)
      right == car.x + W2P(WW) + x
      left == car.x - W2P(WW) - x
  IN CASE rng.zone = 1 -> Zombie(right, car.y + y)
       [] rng.zone = 2 -> Zombie(right, car.y + y + Range(1000, 1200, rng.frac))
       [] rng.zone = 3 -> Zombie(right, car.y + y + Range(1500, 1800, rng.frac))
       [] rng.zone = 7 -> Zombie(right, car.y + y + Range(1800, 2500, rng.frac))
       [] rng.zone = 4 -> Zombie(left, car.y - y)
       [] rng.zone = 5 -> Zombie(left, car.y - y + Range(1000, 1200, rng.frac))
       [] rng.zone = 6 -> Zombie(left, car.y - y + Range(1500, 1800, rng.frac))
       [] OTHER -> Zombie(left, car.y - y + Range(1800, 2500, rng.frac))

\* the placement of a candidate whose first draw is not below normal_zombie_probability
SpecialPlace(car, rng, s, p) ==
  LET x == W2P(rng.sx)
      y == W2P(rng.sy)
      ahead == car.y + y + Range(1000, 1500, rng.frac)
  IN IF is_enable_road_zombies(s, p)
     THEN IF rng.side THEN Zombie(car.x + x + W2P(WW) \div 2 + Range(0, 100, rng.frac), ahead)
          ELSE Zombie(car.x - x - W2P(WW) \div 2 - Range(0, 100, rng.frac), ahead)
     ELSE IF is_enable_half_road_zombies(s, p)
     THEN IF rng.side THEN Zombie(car.x + x + W2P(WW) \div 2 + Range(100, 200, rng.frac), ahead)
          ELSE Zombie(car.x - x - W2P(WW) \div 2 - Range(100, 200, rng.frac), ahead)
     ELSE Zombie(W2P(10000), W2P(10000))

\* for _ in 0..50
SPAWN_BATCH == 50

\* the zombies one call of spawn_zombies queues: rng.special of the candidates
\* draw a special placement, the others a normal one
SpawnBatch(car, rng, s, p) ==
  LET k == Min(rng.special, SPAWN_BATCH)
  IN BagOf(NormalPlace(car, rng), SPAWN_BATCH - k) (+) BagOf(SpecialPlace(car, rng, s, p), k)

spawn_zombies ==
  /\ Runs("spawn_zombies")
  /\ cmd_spawn' = IF cars = <<>> \/ BagSize(zombies) >= NumZombies(settings, car_progress) THEN cmd_spawn
                  ELSE [cmd_spawn EXCEPT !.zombies = @ (+) SpawnBatch(cars[1], input.rng, settings, car_progress)]
  /\ UNCHANGED <<next_state, settings, cars, car_health, car_progress, player_score, road_tiles, obstacles, zombies, bullets, ev_hit, ev_dead, app_exit>>


\* the body of shoot_gun for the one Car: the bullet it queues
NewBullet(car, cursor) ==
  IF cursor.has
  THEN Bullet(car.x, car.y, W2P(cursor.dx), W2P(cursor.dy), W2P(0 - 10))
  ELSE Bullet(car.x, car.y, ForwardVec(car.rot).x, ForwardVec(car.rot).y, 0)

\* input.timer: on_timer(BULLET_SPAWN_INTERVAL) is true in this frame
shoot_gun ==
  /\ Runs("shoot_gun")
  /\ cmd_spawn' = IF ~input.timer \/ cars = <<>> \/ ~input.mouse THEN cmd_spawn
                  ELSE [cmd_spawn EXCEPT !.bullets = @ (+) BagOf(NewBullet(cars[1], input.cursor), 1)]
  /\ UNCHANGED <<next_state, settings, cars, car_health, car_progress, player_score, road_tiles, obstacles, zombies, bullets, ev_hit, ev_dead, app_exit>>

\* one bullet's step in update_bullet
MoveBullet(b, d) ==
  LET n == Normalize(b.dx, b.dy, b.dz)
  IN [b EXCEPT !.x = b.x + TruncDiv(n.x * BULLET_SPEED * PosUnit * d, Milli * TicksPerSec),
               !.y = b.y + TruncDiv(n.y * BULLET_SPEED * PosUnit * d, Milli * TicksPerSec)]

update_bullet ==
  /\ Runs("update_bullet")
  /\ bullets' = BagMap(bullets, [b \in DOMAIN bullets |-> MoveBullet(b, delta)])
  /\ UNCHANGED <<next_state, settings, cars, car_health, car_progress, player_score, road_tiles, obstacles, zombies, cmd_spawn, ev_hit, ev_dead, app_exit>>

\* bullet.0.elapsed().as_secs_f32() > BULLET_TIME
Expired(b) == b.age > BULLET_TIME * TicksPerSec

despawn_bullets ==
  /\ Runs("despawn_bullets")
  /\ bullets' = BagMap(bullets, [b \in DOMAIN bullets |-> IF Expired(b) THEN [b EXCEPT !.doomed = TRUE] ELSE b])
  /\ UNCHANGED <<next_state, settings, cars, car_health, car_progress, player_score, road_tiles, obstacles, zombies, cmd_spawn, ev_hit, ev_dead, app_exit>>

\* the wall clock moves on by d: the age of a bullet is kept up to just past BULLET_TIME
AgeBullets(bs, d) == BagMap(bs, [b \in DOMAIN bs |-> [b EXCEPT !.age = Min(@ + d, BULLET_TIME * TicksPerSec + 1)]])

\* ------------------------------------------------------- the obstacles
\* the obstacle rows without the test j > 30
ObstacleRowsAny(o) == {j \in BOTTOM_Y..TOP_Y : o.every > 0 /\ j % Max(o.every, 1) = 0}

\* the rows whose obstacle draw is above 0.9 (every o.every-th row; none if 0), j > 30
ObstacleRows(o) == {j \in BOTTOM_Y..TOP_Y : j > 30 /\ o.every > 0 /\ j % Max(o.every, 1) = 0}

\* the rows of S in the order of the loop
RowSeq(S) == [n \in 1..Cardinality(S) |-> CHOOSE m \in S : Cardinality({r \in S : r < m}) = n - 1]

\* VehicleObstacle::new((x, y)): lattice column gen_range(offset + 1..offset + 5), then x += -1.0 * tile
VehicleObstacle(walk, o, j) == [x |-> (RowOffset(walk, j) + o.lane) * TileSize - TileSize, y |-> j * TileSize]

\* the obstacles spawn_road pushes, in row order
ObstaclesOf(r) == LET rows == RowSeq(ObstacleRows(r)) IN [n \in 1..Len(rows) |-> VehicleObstacle(r.walk, r, rows[n])]

\* a straight road without obstacles
PlainRoad == [walk |-> <<0>>, every |-> 0, lane |-> 1]

\* ------------------------------------------------------- state transitions
World == [cars |-> cars, car_health |-> car_health, car_progress |-> car_progress, player_score |-> player_score,
          road_tiles |-> road_tiles, obstacles |-> obstacles, zombies |-> zombies, bullets |-> bullets]

\* cleanup_previous_game without the reset of CarHealth, PlayerScore and CarProgress
cleanup_entities_only(w) == [w EXCEPT !.cars = <<>>, !.zombies = EmptyBag, !.bullets = EmptyBag,
                                      !.road_tiles = {}, !.obstacles = <<>>]

\* every GameEntity is despawned and the resources are reset
cleanup_previous_game(w) == [w EXCEPT !.cars = <<>>, !.zombies = EmptyBag, !.bullets = EmptyBag,
                                      !.road_tiles = {}, !.obstacles = <<>>,
                                      !.car_health = MAX_CAR_HEALTH, !.car_progress = 0, !.player_score = 0]

setup_game(w) == [w EXCEPT !.cars = Append(@, NewCar)]

spawn_road(w, r) == [w EXCEPT !.road_tiles = @ \cup {r.walk}, !.obstacles = @ \o ObstaclesOf(r)]

\* the OnExit schedules without cleanup_previous_game in that of GameOver
OnExitKeep(st, w) == w

\* the OnExit schedule of state st
OnExit(st, w) == IF st = "GameOver" THEN cleanup_previous_game(w) ELSE w

\* the OnEnter schedules without cleanup_previous_game in that of MainMenu
OnEnterNoCleanup(st, w, r) == IF st = "GameInit" THEN spawn_road(setup_game(w), r) ELSE w

\* the OnEnter schedule of state st
OnEnter(st, w, r) == CASE st = "MainMenu" -> cleanup_previous_game(w)
                       [] st = "GameInit" -> spawn_road(setup_game(w), r)
                       [] OTHER -> w

\* apply_state_transition: a request for the current state runs no schedule
Transition(st, ns, w, r) == IF ns = "None" \/ ns = st THEN w ELSE OnEnter(ns, OnExit(st, w), r)

\* the InGame systems of this model, in the order of their registration
InGameSystems == <<"car_manual_input_system", "bullet_hit_zombie", "check_obstacle_collision", "check_zombie_collision",
                   "handle_zombie_player_hit", "update_car_progress", "handle_turbo_input", "update_zombies",
                   "despawn_zombies", "spawn_zombies", "despawn_bullets", "update_bullet", "handle_escape_key",
                   "handle_player_dead_event", "handle_game_complete", "shoot_gun">>

Reverse(s) == [i \in 1..Len(s) |-> s[Len(s) + 1 - i]]

Rotate(s, n) == SubSeq(s, n + 1, Len(s)) \o SubSeq(s, 1, n)

\* an order that runs the first registered system twice and the last one never
OrderNoTwice(k) == <<Head(InGameSystems)>> \o SubSeq(InGameSystems, 1, Len(InGameSystems) - 1)

\* the k-th of the explored orders: registration order, its reverse, rotations of it
OrderNo(k) == IF k = 1 THEN InGameSystems
              ELSE IF k = 2 THEN Reverse(InGameSystems)
              ELSE Rotate(InGameSystems, (5 * (k - 2)) % Len(InGameSystems))

\* the InGame systems without their run_if: they run in the menus over a run as well
UpdateSystemsUngated(st, k) == CASE st \in {"InGame", "PauseMenu", "GameOver"} -> OrderNo(k)
                                 [] st = "MainMenu" -> <<"handle_main_menu_btn_click">>
                                 [] st = "SettingsMenu" -> <<"handle_settings_menu_btn_click">>
                                 [] st = "GameInit" -> <<"mark_game_setup_done">>
                                 [] OTHER -> <<>>

\* the Update systems whose run_if(in_state(st)) holds, in the frame's order
UpdateSystems(st, k) == CASE st = "InGame" -> OrderNo(k)
                          [] st = "MainMenu" -> <<"handle_main_menu_btn_click">>
                          [] st = "SettingsMenu" -> <<"handle_settings_menu_btn_click">>
                          [] st = "PauseMenu" -> <<"handle_pause_menu_btn_click">>
                          [] st = "GameOver" -> <<"handle_game_over_menu_btn_click">>
                          [] st = "GameInit" -> <<"mark_game_setup_done">>
                          [] OTHER -> <<>>


\* ---------------------------------------------------------------- the frame
\* First (Events::update), StateTransition (apply_state_transition with the
\* OnExit and OnEnter schedules), then the frame's input, delta and order;
\* Choices[st] are the frames explored in state st
FrameStart(Choices) ==
  /\ phase = "idle"
  /\ frame < MaxFrames
  /\ ~app_exit
  /\ LET st == IF next_state = "None" THEN state ELSE next_state
     IN \E c \in Choices[st] :
          LET w == Transition(state, next_state, World, c.road)
          IN /\ state' = st
             /\ next_state' = "None"
             /\ cars' = w.cars
             /\ car_health' = w.car_health
             /\ car_progress' = w.car_progress
             /\ player_score' = w.player_score
             /\ road_tiles' = w.road_tiles
             /\ obstacles' = w.obstacles
             /\ zombies' = w.zombies
             /\ bullets' = AgeBullets(w.bullets, c.d)
             /\ ev_hit' = EvUpdate(ev_hit)
             /\ ev_dead' = EvUpdate(ev_dead)
             /\ input' = c.input
             /\ delta' = c.d
             /\ sched' = UpdateSystems(st, c.order)
  /\ cmd_spawn' = NoSpawn
  /\ phase' = "update"
  /\ frame' = frame + 1
  /\ UNCHANGED <<settings, app_exit>>

\* the entities whose despawn is not queued
Alive(B) == BagFilter(B, {e \in DOMAIN B : ~e.doomed})

\* the end of Update: the queued Commands are applied
EndFrame ==
  /\ phase = "update"
  /\ sched = <<>>
  /\ zombies' = Alive(zombies) (+) cmd_spawn.zombies
  /\ bullets' = Alive(bullets) (+) cmd_spawn.bullets
  /\ cmd_spawn' = NoSpawn
  /\ input' = NoInput
  /\ delta' = 0
  /\ phase' = "idle"
  /\ UNCHANGED <<state, next_state, settings, cars, car_health, car_progress, player_score, road_tiles, obstacles, ev_hit, ev_dead, sched, frame, app_exit>>

\* ---------------------------------------------------------------- the menus
handle_main_menu_btn_click ==
  /\ Runs("handle_main_menu_btn_click")
  /\ app_exit' = (app_exit \/ input.click = "Quit")
  /\ next_state' = CASE input.click = "Settings" -> "SettingsMenu"
                     [] input.click = "Play" -> "GameInit"
                     [] OTHER -> next_state
  /\ UNCHANGED <<settings, cars, car_health, car_progress, player_score, road_tiles, obstacles, zombies, bullets, cmd_spawn, ev_hit, ev_dead>>

handle_settings_menu_btn_click ==
  /\ Runs("handle_settings_menu_btn_click")
  /\ settings' = CASE input.click = "Difficulty" -> update_difficulty(settings)
                   [] input.click = "EntityCount" -> update_entity_count(settings)
                   [] input.click = "GodMode" -> [settings EXCEPT !.god_mode = ~@]
                   [] OTHER -> settings
  /\ next_state' = IF input.click = "ExitToMainMenu" THEN "MainMenu" ELSE next_state
  /\ UNCHANGED <<cars, car_health, car_progress, player_score, road_tiles, obstacles, zombies, bullets, cmd_spawn, ev_hit, ev_dead, app_exit>>

handle_pause_menu_btn_click ==
  /\ Runs("handle_pause_menu_btn_click")
  /\ next_state' = CASE input.click = "Resume" -> "InGame"
                     [] input.click = "ExitToMainMenu" -> "MainMenu"
                     [] OTHER -> next_state
  /\ UNCHANGED <<settings, cars, car_health, car_progress, player_score, road_tiles, obstacles, zombies, bullets, cmd_spawn, ev_hit, ev_dead, app_exit>>

handle_game_over_menu_btn_click ==
  /\ Runs("handle_game_over_menu_btn_click")
  /\ next_state' = CASE input.click = "ExitToMainMenu" -> "MainMenu"
                     [] input.click = "Restart" -> "GameInit"
                     [] OTHER -> next_state
  /\ UNCHANGED <<settings, cars, car_health, car_progress, player_score, road_tiles, obstacles, zombies, bullets, cmd_spawn, ev_hit, ev_dead, app_exit>>

mark_game_setup_done ==
  /\ Runs("mark_game_setup_done")
  /\ next_state' = "InGame"
  /\ UNCHANGED <<settings, cars, car_health, car_progress, player_score, road_tiles, obstacles, zombies, bullets, cmd_spawn, ev_hit, ev_dead, app_exit>>

\* let message of setup_game_over_menu (OnEnter(GameOver)), from CarProgress p
setup_game_over_menu(p) == IF p < 0 THEN "Zombies that way ;)\nGo north!"
                           ELSE IF 100 * p >= 98 * TOTAL_H THEN "You Survived!"
                           ELSE "You got Mauled"

\* the systems of the InGame state
InGameStep ==
  \/ car_manual_input_system
  \/ bullet_hit_zombie
  \/ check_obstacle_collision
  \/ check_zombie_collision
  \/ handle_zombie_player_hit
  \/ update_car_progress
  \/ handle_turbo_input
  \/ update_zombies
  \/ despawn_zombies
  \/ spawn_zombies
  \/ despawn_bullets
  \/ update_bullet
  \/ handle_escape_key
  \/ handle_player_dead_event
  \/ handle_game_complete
  \/ shoot_gun

\* the systems of the menu states
MenuStep ==
  \/ handle_main_menu_btn_click
  \/ handle_settings_menu_btn_click
  \/ handle_pause_menu_btn_click
  \/ handle_game_over_menu_btn_click
  \/ mark_game_setup_done


\* ------------------------------------------------------ the explored frames
\* the input of a frame in which the keys and buttons of the set ks are down
Press(ks) == [NoInput EXCEPT !.w = "w" \in ks, !.a = "a" \in ks, !.s = "s" \in ks, !.d = "d" \in ks,
                             !.space = "space" \in ks, !.escape = "escape" \in ks,
                             !.mouse = "mouse" \in ks, !.timer = "timer" \in ks]

\* a frame of delta d under the k-th order with the keys ks down
KeyFrame(ks, d, k) == [input |-> Press(ks), d |-> d, order |-> k, road |-> PlainRoad]

\* a frame in which the button b has become Pressed
ClickFrame(b) == [input |-> [NoInput EXCEPT !.click = b], d |-> 1, order |-> 1, road |-> PlainRoad]

\* a road that bends and carries an obstacle in every 7th row
BentRoad == [walk |-> <<1, 0, -1>>, every |-> 7, lane |-> 2]

\* the frames of the application as a whole: the buttons of every menu, the
\* Escape key and every explored order in InGame
LifeFrames == [st \in GameStates |->
  CASE st = "InGame" -> {KeyFrame(ks, 1, k) : ks \in {{}, {"escape"}}, k \in 1..NumOrders}
    [] st = "MainMenu" -> {ClickFrame(b) : b \in {"Play", "Settings", "Quit"}}
    [] st = "SettingsMenu" -> {ClickFrame(b) : b \in {"Difficulty", "EntityCount", "GodMode", "ExitToMainMenu"}}
    [] st = "PauseMenu" -> {ClickFrame(b) : b \in {"none", "Resume", "ExitToMainMenu"}}
    [] st = "GameOver" -> {ClickFrame(b) : b \in {"none", "Restart", "ExitToMainMenu"}}
    [] st = "GameInit" -> {[ClickFrame("none") EXCEPT !.road = BentRoad]}
    [] OTHER -> {ClickFrame("none")}]

\* ------------------------------------------------------------ initial states
\* the resources main inserts, after OnEnter(LoadAssets) has requested MainMenu
Init ==
  /\ state = "LoadAssets"
  /\ next_state = "MainMenu"
  /\ settings = DefaultSettings
  /\ cars = <<>>
  /\ car_health = MAX_CAR_HEALTH
  /\ car_progress = 0
  /\ player_score = 0
  /\ road_tiles = {}
  /\ obstacles = <<>>
  /\ zombies = EmptyBag
  /\ bullets = EmptyBag
  /\ cmd_spawn = NoSpawn
  /\ ev_hit = NoEvents
  /\ ev_dead = NoEvents
  /\ input = NoInput
  /\ delta = 0
  /\ sched = <<>>
  /\ phase = "idle"
  /\ frame = 0
  /\ app_exit = FALSE

\* a run between two frames of InGame, n frames after the application started:
\* the car c on the road r, with the health h, the zombies zs and the bullets bs
MidRun(n, s, r, c, h, zs, bs, hits) ==
  /\ state = "InGame"
  /\ next_state = "None"
  /\ settings = s
  /\ cars = <<c>>
  /\ car_health = h
  /\ car_progress = c.y
  /\ player_score = 0
  /\ road_tiles = {r.walk}
  /\ obstacles = ObstaclesOf(r)
  /\ zombies = zs
  /\ bullets = bs
  /\ cmd_spawn = NoSpawn
  /\ ev_hit = hits
  /\ ev_dead = NoEvents
  /\ input = NoInput
  /\ delta = 0
  /\ sched = <<>>
  /\ phase = "idle"
  /\ frame = n
  /\ app_exit = FALSE

\* a car that has come to rest on the first rows of the road
RestingCar == [NewCar EXCEPT !.y = W2P(130), !.speed = 0, !.turbo = 2 * TicksPerSec]

\* two zombies on one spot and a third one, all in contact with RestingCar, and one far away
Pack == BagOf(Zombie(W2P(160), W2P(135)), 2) (+) BagOf(Zombie(W2P(140), W2P(120)), 1) (+) BagOf(Zombie(W2P(900), W2P(700)), 1)

\* a bullet on its way, next to the far zombie
Shot == BagOf(Bullet(W2P(895), W2P(600), 0, W2P(1), 0), 1)

\* the application from its start, and runs in which the car is under attack
\* with little or full health, with and without god mode
InitLife ==
  \/ Init
  \/ \E h \in {2, 6, MAX_CAR_HEALTH}, g \in BOOLEAN, hits \in {NoEvents, EvSend(NoEvents, 3)} :
       MidRun(0, [DefaultSettings EXCEPT !.god_mode = g], PlainRoad, RestingCar, h, Pack, Shot, hits)

Next ==
  \/ FrameStart(LifeFrames)
  \/ InGameStep
  \/ MenuStep
  \/ EndFrame

Spec == InitLife /\ [][Next]_vars


\* ------------------------------------------------------------ the drive
\* the keys and deltas of the frames of a drive
DriveKeys == {<<{"w"}, 1>>, <<{"w"}, 5>>, <<{"s"}, 5>>, <<{"w", "space"}, 1>>, <<{"a"}, 1>>, <<{}, 5>>}

\* the frames of a drive, under every explored order; the drive ends with the run
DriveFrames == [st \in GameStates |-> IF st = "InGame" THEN {KeyFrame(kd[1], kd[2], k) : kd \in DriveKeys, k \in 1..NumOrders} ELSE {}]

\* the car at full speed shortly before its turbo is ready
TurboReadyCar == [NewCar EXCEPT !.y = W2P(130), !.speed = MAX_SPEED * SpeedUnit, !.turbo = TURBO_INTERVAL_SEC * TicksPerSec - 1]

\* the car at full speed, just below the first obstacle of BentRoad
NearObstacleCar == [NewCar EXCEPT !.x = ObstaclesOf(BentRoad)[1].x + W2P(20), !.y = ObstaclesOf(BentRoad)[1].y - W2P(40),
                                  !.speed = MAX_SPEED * SpeedUnit, !.turbo = 2 * TicksPerSec]

\* the car at full speed, 30 world units before the end of the road
NearFinishCar == [NewCar EXCEPT !.y = TOTAL_H - W2P(30), !.speed = MAX_SPEED * SpeedUnit, !.turbo = 3 * TicksPerSec]

\* the car at full speed heading back, 10 world units before progress -0.1
WrongWayCar == [NewCar EXCEPT !.y = W2P(10) - TOTAL_H \div 10, !.rot = HalfTurn, !.speed = MAX_SPEED * SpeedUnit, !.turbo = 3 * TicksPerSec]

\* drives from the start of a run, before the turbo is ready, below an
\* obstacle, before the finish and before the wrong-way limit
InitDrive ==
  \/ MidRun(1, DefaultSettings, PlainRoad, NewCar, MAX_CAR_HEALTH, EmptyBag, EmptyBag, NoEvents)
  \/ MidRun(1, DefaultSettings, PlainRoad, TurboReadyCar, MAX_CAR_HEALTH, EmptyBag, EmptyBag, NoEvents)
  \/ MidRun(1, DefaultSettings, BentRoad, NearObstacleCar, MAX_CAR_HEALTH, EmptyBag, EmptyBag, NoEvents)
  \/ MidRun(1, DefaultSettings, PlainRoad, NearFinishCar, MAX_CAR_HEALTH, EmptyBag, EmptyBag, NoEvents)
  \/ MidRun(1, DefaultSettings, PlainRoad, WrongWayCar, MAX_CAR_HEALTH, EmptyBag, EmptyBag, NoEvents)

NextDrive ==
  \/ FrameStart(DriveFrames)
  \/ InGameStep
  \/ EndFrame

SpecDrive == InitDrive /\ [][NextDrive]_vars

\* ------------------------------------------------------------ the horde
\* draws that place the candidates to the left, two of them specially, and
\* let the zombies stray
LeftRng == [DefaultRng EXCEPT !.zone = 4, !.sx = 100, !.sy = 50, !.frac = 500, !.special = 2, !.side = FALSE, !.coin = TRUE, !.jx = 100, !.jy = -300]

\* the frames of a fight: the gun at rest, fired along the car and fired at the cursor
HordeFrames == [st \in GameStates |->
  IF st = "InGame"
  THEN {[input |-> i, d |-> 1, order |-> k, road |-> PlainRoad] :
          i \in {NoInput,
                 [NoInput EXCEPT !.rng = LeftRng],
                 [Press({"mouse", "timer"}) EXCEPT !.rng = LeftRng],
                 [Press({"mouse", "timer", "w"}) EXCEPT !.cursor = [has |-> TRUE, dx |-> 30, dy |-> 40]]},
          k \in 1..NumOrders}
  ELSE {}]

\* the car at rest in the middle of the road, and shortly before its end
MidwayCar == [RestingCar EXCEPT !.y = TOTAL_H \div 2]

LateCar == [RestingCar EXCEPT !.y = TOTAL_H - W2P(480)]

\* zombies c world units to the right of the car and 300 ahead of it
Crowd(car, c, n) == BagOf(Zombie(car.x + W2P(c), car.y + W2P(300)), n)

\* two zombies on one spot, one next to them, one apart, one far behind the car
Targets == BagOf(Zombie(W2P(300), W2P(300)), 2) (+) BagOf(Zombie(W2P(305), W2P(308)), 1)
           (+) BagOf(Zombie(W2P(400), W2P(300)), 1) (+) BagOf(Zombie(W2P(150), W2P(130 - 800)), 1)

\* two bullets within reach of Targets and one out of reach
Volley == BagOf(Bullet(W2P(300), W2P(295), 0, W2P(1), 0), 1) (+) BagOf(Bullet(W2P(310), W2P(300), W2P(1), 0, 0), 1)
          (+) BagOf(Bullet(W2P(600), W2P(600), W2P(3), W2P(4), W2P(0 - 10)), 1)

\* fights at the start of a run, with one bullet on one zombie, with bullets
\* on a pack, and with the population just below its cap
InitHorde ==
  \/ MidRun(1, DefaultSettings, PlainRoad, NewCar, MAX_CAR_HEALTH, EmptyBag, EmptyBag, NoEvents)
  \/ MidRun(1, DefaultSettings, PlainRoad, RestingCar, MAX_CAR_HEALTH, BagOf(Zombie(W2P(500), W2P(300)), 1), BagOf(Bullet(W2P(500), W2P(300), W2P(1), 0, 0), 1), NoEvents)
  \/ MidRun(1, DefaultSettings, PlainRoad, RestingCar, MAX_CAR_HEALTH, Targets, Volley, NoEvents)
  \/ \E e \in {"Hundred", "FiveHundred"} :
       MidRun(1, [DefaultSettings EXCEPT !.entity_count = e, !.difficulty = "Moderate"], PlainRoad, MidwayCar, MAX_CAR_HEALTH,
              Crowd(MidwayCar, 600, 54), EmptyBag, NoEvents)
  \/ MidRun(1, [DefaultSettings EXCEPT !.entity_count = "Hundred", !.difficulty = "Hard"], PlainRoad, LateCar, MAX_CAR_HEALTH,
            Crowd(LateCar, 600, 99), EmptyBag, NoEvents)

NextHorde ==
  \/ FrameStart(HordeFrames)
  \/ InGameStep
  \/ EndFrame

SpecHorde == InitHorde /\ [][NextHorde]_vars

\* ------------------------------------------------------------ the roads
\* every pattern of at most MaxWalk draws of rng.gen_range(-1..=1), repeated along the road
Walks == UNION {[1..n -> {-1, 0, 1}] : n \in 1..MaxWalk}

\* the roads of the walks, with an obstacle in every 7th row, and the plain road
Roads == {[walk |-> w, every |-> 7, lane |-> 2] : w \in Walks} \cup {PlainRoad}

\* GameInit builds one of the roads; the run then drives on it
RoadFrames == [st \in GameStates |->
  CASE st = "GameInit" -> {[ClickFrame("none") EXCEPT !.road = r] : r \in Roads}
    [] st = "InGame" -> {KeyFrame({"w"}, 1, k) : k \in 1..NumOrders} \cup {KeyFrame({"a"}, 5, k) : k \in 1..NumOrders}
    [] OTHER -> {}]

\* the main menu one frame after the application started, Play pressed
InitRoad ==
  /\ state = "MainMenu"
  /\ next_state = "GameInit"
  /\ settings = DefaultSettings
  /\ cars = <<>>
  /\ car_health = MAX_CAR_HEALTH
  /\ car_progress = 0
  /\ player_score = 0
  /\ road_tiles = {}
  /\ obstacles = <<>>
  /\ zombies = EmptyBag
  /\ bullets = EmptyBag
  /\ cmd_spawn = NoSpawn
  /\ ev_hit = NoEvents
  /\ ev_dead = NoEvents
  /\ input = NoInput
  /\ delta = 0
  /\ sched = <<>>
  /\ phase = "idle"
  /\ frame = 1
  /\ app_exit = FALSE

NextRoad ==
  \/ FrameStart(RoadFrames)
  \/ mark_game_setup_done
  \/ InGameStep
  \/ EndFrame

SpecRoad == InitRoad /\ [][NextRoad]_vars

\* ------------------------------------------------------- the forward drive
\* every tick of the run holds the forward key and no other, under every
\* explored delta and order
ForwardFrames == [st \in GameStates |->
  CASE st = "GameInit" -> {ClickFrame("none")}
    [] st = "InGame" -> {KeyFrame({"w"}, d, k) : d \in Deltas, k \in 1..NumOrders}
    [] OTHER -> {}]

\* a run from its start, and the same drive 30 world units before the finish
InitForward ==
  \/ InitRoad
  \/ MidRun(1, DefaultSettings, PlainRoad, NearFinishCar, MAX_CAR_HEALTH, EmptyBag, EmptyBag, NoEvents)

NextForward ==
  \/ FrameStart(ForwardFrames)
  \/ mark_game_setup_done
  \/ InGameStep
  \/ EndFrame

SpecForward == InitForward /\ [][NextForward]_vars

\* ------------------------------------------------------- the spawn gates
\* the progress at the thresholds 0.4, 0.6 and 0.7 of spawn_zombies and one
\* position unit below each
ProgressMarks == UNION {{(t * TOTAL_H) \div 10 - 1, (t * TOTAL_H) \div 10} : t \in {4, 6, 7}}

\* the last tick of a run without zombies, at every difficulty and mark
InitSpawn ==
  \E d \in Difficulties, y \in ProgressMarks :
    MidRun(MaxFrames - 1, [DefaultSettings EXCEPT !.difficulty = d], PlainRoad, [RestingCar EXCEPT !.y = y],
           MAX_CAR_HEALTH, EmptyBag, EmptyBag, NoEvents)

SpecSpawn == InitSpawn /\ [][NextHorde]_vars

\* ------------------------------------------------------- the steering
\* a fight in which one zombie stands exactly on the resting car and another
\* 100 world units beside it
InitSteer ==
  MidRun(1, DefaultSettings, PlainRoad, RestingCar, MAX_CAR_HEALTH,
         BagOf(Zombie(RestingCar.x, RestingCar.y), 1) (+) BagOf(Zombie(RestingCar.x + W2P(100), RestingCar.y), 1), EmptyBag, NoEvents)

SpecSteer == InitSteer /\ [][NextHorde]_vars

\* ------------------------------------------------------- the speed snap
\* back, back with forward, forward and no key, under every delta and order
SpeedFrames == [st \in GameStates |->
  IF st = "InGame"
  THEN {KeyFrame(ks, d, k) : ks \in {{"s"}, {"s", "w"}, {"w"}, {}}, d \in Deltas, k \in 1..NumOrders}
  ELSE {}]

\* the last two ticks of a drive, the turbo spent, at the speeds -6 (after an
\* obstacle), 0, 5, 5.2, 10, 10.2, MAX_SPEED and MAX_SPEED + TURBO_BOOST
InitSpeed ==
  \E v \in {-6 * SpeedUnit, 0, 5 * SpeedUnit, 5 * SpeedUnit + 1, 10 * SpeedUnit, 10 * SpeedUnit + 1,
            MAX_SPEED * SpeedUnit, (MAX_SPEED + TURBO_BOOST) * SpeedUnit} :
    MidRun(MaxFrames - 2, DefaultSettings, PlainRoad, [RestingCar EXCEPT !.speed = v], MAX_CAR_HEALTH, EmptyBag, EmptyBag, NoEvents)

NextSpeed ==
  \/ FrameStart(SpeedFrames)
  \/ InGameStep
  \/ EndFrame

SpecSpeed == InitSpeed /\ [][NextSpeed]_vars

\* ------------------------------------------------------ the obstacle lanes
\* GameInit builds a road of one of the walks whose obstacles stand in every
\* 31st row or in every 35th (rows in which the walk steps), in the first to the
\* last column that gen_range(offset + 1..offset + 5) can draw; the run then
\* drives forward
LaneFrames == [st \in GameStates |->
  CASE st = "GameInit" -> {[ClickFrame("none") EXCEPT !.road = [walk |-> w, every |-> e, lane |-> l]] :
                             w \in Walks, e \in {31, 35}, l \in 1..4}
    [] st = "InGame" -> {KeyFrame({"w"}, 1, k) : k \in 1..NumOrders}
    [] OTHER -> {}]

NextLane ==
  \/ FrameStart(LaneFrames)
  \/ mark_game_setup_done
  \/ InGameStep
  \/ EndFrame

SpecLane == InitRoad /\ [][NextLane]_vars

\* ------------------------------------------------------ the population cap
\* ticks of runs whose zombie count is one below and at the limit of
\* spawn_zombies, midway and shortly before the end of the road, and of runs
\* without zombies in which the car has driven the wrong way to the progress
\* -0.06, -0.05 and -0.04
InitCap ==
  \/ \E n \in {54, 55} :
       MidRun(1, [DefaultSettings EXCEPT !.entity_count = "Hundred"], PlainRoad, MidwayCar, MAX_CAR_HEALTH,
              Crowd(MidwayCar, 600, n), EmptyBag, NoEvents)
  \/ \E n \in {99, 100} :
       MidRun(1, [DefaultSettings EXCEPT !.entity_count = "Hundred"], PlainRoad, LateCar, MAX_CAR_HEALTH,
              Crowd(LateCar, 600, n), EmptyBag, NoEvents)
  \/ \E c \in {4, 5, 6} :
       MidRun(1, [DefaultSettings EXCEPT !.entity_count = "Hundred"], PlainRoad, [RestingCar EXCEPT !.y = 0 - (c * TOTAL_H) \div 100],
              MAX_CAR_HEALTH, EmptyBag, EmptyBag, NoEvents)

SpecCap == InitCap /\ [][NextHorde]_vars

\* ------------------------------------------------------------- the outcome
\* runs in which a car with little health stands among three zombies: 40 world
\* units behind the start of the road, midway, and at the progress 0.99
InitOutcome ==
  \E y \in {0 - W2P(40), TOTAL_H \div 2, (99 * TOTAL_H) \div 100} :
    MidRun(0, DefaultSettings, PlainRoad, [RestingCar EXCEPT !.y = y], 2,
           BagOf(Zombie(RestingCar.x + W2P(10), y + W2P(5)), 3), EmptyBag, NoEvents)

SpecOutcome == InitOutcome /\ [][Next]_vars

\* ------------------------------------------------------------- properties
\* the system sys has run in the current InGame frame
HasRun(sys) == state = "InGame" /\ phase = "update" /\ \A i \in 1..Len(sched) : sched[i] # sys

\* this step is the run of system sys
IsStep(sys) == phase = "update" /\ sched # <<>> /\ Head(sched) = sys /\ sched' = Tail(sched)

\* s holds every element of t exactly once
IsPermutation(s, t) == Len(s) = Len(t) /\ \A i \in 1..Len(t) : Cardinality({n \in 1..Len(s) : s[n] = t[i]}) = 1

\* the bullets without their age
Ageless(bs) == BagMap(bs, [b \in DOMAIN bs |-> [b EXCEPT !.age = 0]])

\* C3 (as claimed): the health of the car is within [0, MAX_CAR_HEALTH] in
\* every reachable state, also after several contacts in one tick
C3_HealthInRange == car_health >= 0 /\ car_health <= MAX_CAR_HEALTH

\* C4: with god mode on, no step of InGame changes the health of the car, no
\* PlayerDeadEvent is pending after it, and only handle_game_complete asks
\* for GameOver
C4_GodMode ==
  [][settings.god_mode /\ state = "InGame" /\ state' = "InGame"
       => (/\ car_health' = car_health
           /\ EvLen(ev_dead') = 0
           /\ (next_state' = "GameOver" /\ next_state # "GameOver" => IsStep("handle_game_complete")))]_vars

\* C4 witness: with god mode on, handle_zombie_player_hit has run in a frame
\* in which check_zombie_collision has sent hits
C4_Witness == settings.god_mode /\ HasRun("check_zombie_collision") /\ HasRun("handle_zombie_player_hit") /\ ev_hit.new > 0 /\ sched # <<>>

\* C5 (as claimed): the run is never resumed from PauseMenu into InGame with
\* health <= 0, god mode off and no PlayerDeadEvent left to end it
C5_NoResumeWhenDead ==
  [][state = "PauseMenu" /\ state' = "InGame" /\ ~settings.god_mode => car_health' > 0 \/ EvLen(ev_dead') > 0]_vars

C8_Halted ==
  [][state' = state /\ state \in {"GameOver", "PauseMenu"}
       => (/\ cars' = cars
           /\ zombies' = zombies
           /\ Ageless(bullets') = Ageless(bullets)
           /\ car_health' = car_health
           /\ player_score' = player_score
           /\ car_progress' = car_progress)]_vars

\* C8 witness: a frame of PauseMenu has run over a run with a car, zombies and
\* a bullet
C8_Witness == state = "PauseMenu" /\ phase = "update" /\ sched = <<>> /\ cars # <<>> /\ BagSize(zombies) > 0 /\ BagSize(bullets) > 0


\* the largest frame delta
MaxDelta == CHOOSE d \in Deltas : \A e \in Deltas : e <= d

C6_Thresholds ==
  [][IsStep("handle_game_complete")
       => (/\ (10 * car_progress < -TOTAL_H => next_state' = "GameOver" /\ car_progress' = car_progress)
           /\ (car_progress >= TOTAL_H => next_state' = "GameOver" /\ car_progress' = TOTAL_H)
           /\ (10 * car_progress >= -TOTAL_H /\ car_progress < TOTAL_H => next_state' = next_state /\ car_progress' = car_progress)
           /\ state' = state)]_vars

\* C6 witness: handle_game_complete has run with the car beyond the finish,
\* the progress is exactly 1.0 and GameOver is requested
C6_Witness == HasRun("handle_game_complete") /\ cars # <<>> /\ cars[1].y > TOTAL_H /\ car_progress = TOTAL_H /\ next_state = "GameOver"

\* C9: car_manual_input_system adds TURBO_BOOST to the clamped speed exactly
\* when the turbo timer is below 0.2 s; handle_turbo_input resets the timer
\* exactly when Space was just pressed and the timer, after this tick's
\* increment, is above TURBO_INTERVAL_SEC, and otherwise only increments it
C9_TurboGating ==
  [][(/\ (IsStep("car_manual_input_system") /\ cars # <<>>
            => cars'[1].speed = ClampSpeed(Friction(input, cars[1].speed, delta))
                                  + (IF 5 * cars[1].turbo < TicksPerSec THEN TURBO_BOOST * SpeedUnit ELSE 0))
      /\ (IsStep("handle_turbo_input") /\ cars # <<>>
            => cars'[1].turbo = (IF input.space /\ cars[1].turbo + delta > TURBO_INTERVAL_SEC * TicksPerSec THEN 0
                                 ELSE Min(cars[1].turbo + delta, TURBO_INTERVAL_SEC * TicksPerSec + 1))))]_vars

\* C9 witness: handle_turbo_input has accepted a trigger and reset the timer
C9_Witness == HasRun("handle_turbo_input") /\ input.space /\ cars # <<>> /\ cars[1].turbo = 0


\* C2 (as claimed): at the end of every tick the number of zombies is at most
\* min(cap, cap * progress + 5) for the progress of that tick
C2_PopulationCap == phase = "idle" => BagSize(zombies) <= NumZombies(settings, car_progress)

\* the entities of bag B, one by one
Entities(B) == UNION {{<<e, i>> : i \in 1..B[e]} : e \in DOMAIN B}

\* |dx| <= 10 and |dy| <= 10 between bullet b and zombie z
InBox(b, z) == ~z.nan /\ Abs(b.x - z.x) <= 10 * PosUnit /\ Abs(b.y - z.y) <= 10 * PosUnit

\* zombie z with its despawn queued if a bullet of bs is in its box
Struck(z, bs) == IF \E b \in DOMAIN bs : InBox(b, z) THEN [z EXCEPT !.doomed = TRUE] ELSE z

\* C10: bullet_hit_zombie adds to the score the number of (zombie, bullet)
\* pairs with |dx| <= 10 and |dy| <= 10, queues the despawn of exactly the
\* zombies in such a pair, and the end of the tick removes every zombie whose
\* despawn is queued and no other
C10_Resolution ==
  [][(/\ (IsStep("bullet_hit_zombie")
            => /\ player_score' = player_score + Cardinality({p \in Entities(zombies) \X Entities(bullets) : InBox(p[2][1], p[1][1])})
               /\ \A r \in DOMAIN zombies' \cup {Struck(z, bullets) : z \in DOMAIN zombies} :
                    CopiesIn(r, zombies') = FnSum([z \in {z \in DOMAIN zombies : Struck(z, bullets) = r} |-> zombies[z]]))
      /\ (phase = "update" /\ phase' = "idle"
            => /\ \A z \in DOMAIN zombies' : ~z.doomed
               /\ \A z \in DOMAIN zombies : ~z.doomed => CopiesIn(z, zombies') >= zombies[z]))]_vars

\* C10 witness: bullet_hit_zombie has run, the score has risen and the despawn
\* of a zombie that a bullet has hit is queued
C10_Witness == HasRun("bullet_hit_zombie") /\ player_score > 0 /\ \E z \in DOMAIN zombies : z.doomed /\ HitsOn(bullets, z) > 0


\* C11 (as claimed): with god mode off, over a run (InGame and its pauses)
\* every enemy with |dx| <= 20 and |dy| <= 20 to the car adds one hit per
\* tick, and every hit lowers the health by ZOMBIE_ATTACK exactly once: the
\* health less ZOMBIE_ATTACK for every hit not yet applied changes only when
\* check_zombie_collision emits hits, so no hit is lost or applied twice
C11_HitsConserved ==
  [][~settings.god_mode /\ state \in {"InGame", "PauseMenu"} /\ state' \in {"InGame", "PauseMenu"}
       => IF IsStep("check_zombie_collision") /\ cars # <<>>
          THEN /\ car_health' = car_health
               /\ EvLen(ev_hit') = EvLen(ev_hit) + Cardinality({e \in Entities(zombies) :
                                      ~e[1].nan /\ Abs(e[1].x - cars[1].x) <= 20 * PosUnit /\ Abs(e[1].y - cars[1].y) <= 20 * PosUnit})
          ELSE car_health' - ZOMBIE_ATTACK * EvLen(ev_hit') = car_health - ZOMBIE_ATTACK * EvLen(ev_hit)]_vars


\* C12: in the TileIndex that spawn_road leaves, for every walk, every row
\* holds one contiguous run of exactly ROAD_WIDTH + 1 tiles and the index
\* holds no other tile; the runs of adjacent rows share at least ROAD_WIDTH
\* tiles (the run moves by at most 1), and the run changes only where a 5-row
\* segment begins, never at the two topmost rows
C12_Continuity ==
  state = "GameInit" /\ phase = "update" /\ sched # <<>>
    => LET T == RoadTileSet(road_tiles)
           xs == [j \in BOTTOM_Y..TOP_Y |-> {i \in -((j - BOTTOM_Y) \div 5 + 1)..((j - BOTTOM_Y) \div 5 + 1 + ROAD_WIDTH) : <<i, j>> \in T}]
       IN /\ Cardinality(T) = (ROAD_WIDTH + 1) * (TOP_Y - BOTTOM_Y + 1)
          /\ \A j \in BOTTOM_Y..TOP_Y :
               /\ Cardinality(xs[j]) = ROAD_WIDTH + 1
               /\ \A a, b \in xs[j] : Abs(a - b) <= ROAD_WIDTH
          /\ \A j \in BOTTOM_Y..(TOP_Y - 1) :
               /\ Cardinality(xs[j] \cap xs[j + 1]) >= ROAD_WIDTH
               /\ (xs[j + 1] # xs[j] => (j + 1) % 5 = 0 /\ j + 1 < TOP_Y - 1)

\* C12 witness: GameInit has built a road that bends to the right in its
\* second segment and lies left of its start in its fourth
C12_Witness == state = "GameInit" /\ phase = "update" /\ ~HasTile(road_tiles, 0, -5) /\ HasTile(road_tiles, 1, -5) /\ HasTile(road_tiles, -1, 5)


\* C13: the TileIndex that spawn_road leaves holds tiles in every row of
\* -10..ROAD_HEIGHT and in no other row, (ROAD_WIDTH + 1) * (ROAD_HEIGHT + 11)
\* = 3666 tiles in all, and the two topmost rows hold the columns of the row
\* below them, whatever the walk draws
C13_TileIndex ==
  state = "GameInit" /\ phase = "update" /\ sched # <<>>
    => LET T == RoadTileSet(road_tiles)
           RowTiles(j) == {t[1] : t \in {t \in T : t[2] = j}}
       IN /\ {t[2] : t \in T} = (-10)..ROAD_HEIGHT
          /\ Cardinality(T) = (ROAD_WIDTH + 1) * (ROAD_HEIGHT + 11)
          /\ Cardinality(T) = 3666
          /\ RowTiles(ROAD_HEIGHT) = RowTiles(ROAD_HEIGHT - 2)
          /\ RowTiles(ROAD_HEIGHT - 1) = RowTiles(ROAD_HEIGHT - 2)

\* C13 witness: GameInit has built a road whose last walk step, in row
\* ROAD_HEIGHT - 5, drew a bend for the segment that the top rows cut off
C13_Witness ==
  /\ state = "GameInit" /\ phase = "update" /\ sched # <<>>
  /\ \E w \in road_tiles : WalkDraw(w, Cardinality(WalkRows(ROAD_HEIGHT - 5)) - 1) # 0
  /\ Cardinality(RoadTileSet(road_tiles)) = 3666


C15_SettingsConstant ==
  [][(/\ (settings' # settings
            => /\ state = "SettingsMenu" /\ IsStep("handle_settings_menu_btn_click")
               /\ cars = <<>> /\ zombies = EmptyBag /\ bullets = EmptyBag /\ road_tiles = {} /\ obstacles = <<>>)
      /\ (state' = "SettingsMenu" /\ state # "SettingsMenu" => state = "MainMenu")
      /\ (state' = "MainMenu" /\ state # "MainMenu"
            => /\ cars' = <<>> /\ zombies' = EmptyBag /\ bullets' = EmptyBag /\ road_tiles' = {} /\ obstacles' = <<>>
               /\ car_health' = MAX_CAR_HEALTH /\ car_progress' = 0 /\ player_score' = 0)
      /\ (state \in {"GameInit", "InGame", "PauseMenu", "GameOver"} => settings' = settings))]_vars

\* C15 witness: the settings were changed in SettingsMenu and Play is pressed
\* in MainMenu: the run about to start keeps the changed settings
C15_Witness == state = "MainMenu" /\ next_state = "GameInit" /\ settings # DefaultSettings /\ cars = <<>>


\* C16 (as claimed): in a run in which Space is never pressed, so that no
\* turbo trigger is accepted, no tick adds TURBO_BOOST to the speed:
\* car_manual_input_system leaves the clamped speed of update_car_input
C16_NoBoostBeforeTrigger ==
  [][IsStep("car_manual_input_system") /\ cars # <<>>
       => cars'[1].speed = ClampSpeed(Friction(input, cars[1].speed, delta))]_vars


\* C17 (as claimed): bullet_hit_zombie queues the despawn of every bullet
\* that is within the 10-unit box of a zombie, so that the bullet no longer
\* exists after the tick (the end of the tick removes the entities whose
\* despawn is queued) and cannot score in a later tick
C17_BulletDestroyedOnHit ==
  [][IsStep("bullet_hit_zombie")
       => \A b \in DOMAIN bullets :
            (\E z \in DOMAIN zombies : InBox(b, z))
              => b.doomed \/ (b \notin DOMAIN bullets' /\ [b EXCEPT !.doomed = TRUE] \in DOMAIN bullets')]_vars


\* C18 (as claimed): at the end of every tick the stored progress is at most
\* 1.0, whatever the order of update_car_progress and handle_game_complete
C18_ProgressClamped == phase = "idle" => car_progress <= TOTAL_H


\* C19: when despawn_zombies runs with a car present, it queues the despawn
\* of every zombie with car.y - zombie.y > 700 and of no zombie with
\* car.y - zombie.y <= 700 (a despawn queued before stays queued), and it
\* changes neither score nor health nor the pending hits; the end of the
\* tick removes the zombies whose despawn is queued and no other
C19_Sweep ==
  [][(/\ (IsStep("despawn_zombies") /\ cars # <<>>
            => /\ \A z \in {z \in DOMAIN zombies : ~z.nan} :
                    IF cars[1].y - z.y > 700 * PosUnit
                    THEN /\ (~z.doomed => z \notin DOMAIN zombies')
                         /\ CopiesIn([z EXCEPT !.doomed = TRUE], zombies') >= zombies[z]
                    ELSE /\ (~z.doomed => CopiesIn(z, zombies') = zombies[z])
                         /\ CopiesIn(z, zombies') >= zombies[z]
               /\ BagSize(zombies') = BagSize(zombies)
               /\ player_score' = player_score /\ car_health' = car_health /\ ev_hit' = ev_hit /\ ev_dead' = ev_dead)
      /\ (phase = "update" /\ phase' = "idle"
            => /\ \A z \in DOMAIN zombies : z.doomed => z \notin DOMAIN zombies'
               /\ \A z \in DOMAIN zombies : ~z.doomed => CopiesIn(z, zombies') >= zombies[z]))]_vars

\* C19 witness: despawn_zombies has run and has queued the despawn of a
\* zombie more than 700 behind the car, and not that of a zombie ahead
C19_Witness ==
  /\ HasRun("despawn_zombies") /\ cars # <<>> /\ ~HasRun("bullet_hit_zombie")
  /\ \E z \in DOMAIN zombies : z.doomed /\ cars[1].y - z.y > 700 * PosUnit
  /\ \E z \in DOMAIN zombies : ~z.doomed /\ cars[1].y - z.y <= 700 * PosUnit


\* C20: of a batch that spawn_zombies queues, the candidates that are not
\* placed in a normal zone are all placed in one class, given by difficulty
\* and progress alone. Easy: on the road (within 100 of the half window
\* width beside the car, 1000 to 1500 ahead) iff progress >= 0.7, beside the
\* road (100 to 200 further out) iff 0.4 <= progress < 0.7, at (10000, 10000)
\* iff progress < 0.4; Moderate: on the road iff progress >= 0.6, otherwise
\* beside it; Hard: on the road
C20_PlacementGating ==
  [][IsStep("spawn_zombies") /\ cmd_spawn' # cmd_spawn
       => LET rng == input.rng
              batch == cmd_spawn'.zombies (-) cmd_spawn.zombies
              out(z) == Abs(z.x - cars[1].x) - W2P(WW) \div 2 - W2P(rng.sx)
              ahead(z) == z.y - cars[1].y - W2P(rng.sy) >= W2P(1000) /\ z.y - cars[1].y - W2P(rng.sy) < W2P(1500)
              class(z) == IF z.x = W2P(10000) /\ z.y = W2P(10000) THEN "fallback"
                          ELSE IF ahead(z) /\ out(z) >= 0 /\ out(z) < W2P(100) THEN "road"
                          ELSE IF ahead(z) /\ out(z) >= W2P(100) /\ out(z) < W2P(200) THEN "half"
                          ELSE "normal"
              count(c) == BagSize(BagFilter(batch, {z \in DOMAIN batch : class(z) = c}))
              want == CASE settings.difficulty = "Easy" -> IF 10 * car_progress >= 7 * TOTAL_H THEN "road"
                                                           ELSE IF 10 * car_progress >= 4 * TOTAL_H THEN "half"
                                                           ELSE "fallback"
                        [] settings.difficulty = "Moderate" -> IF 10 * car_progress >= 6 * TOTAL_H THEN "road" ELSE "half"
                        [] OTHER -> "road"
          IN /\ BagSize(batch) = 50
             /\ count(want) = rng.special
             /\ count("normal") = 50 - rng.special]_vars

\* C20 witness: at Easy and progress exactly 0.4, spawn_zombies has queued a
\* batch with two candidates beside the road and none at (10000, 10000)
C20_Witness ==
  /\ HasRun("spawn_zombies") /\ settings.difficulty = "Easy" /\ 10 * car_progress = 4 * TOTAL_H /\ input.rng.special = 2
  /\ BagSize(cmd_spawn.zombies) = 50
  /\ \A z \in DOMAIN cmd_spawn.zombies : z.x # W2P(10000)


\* C21 (as claimed): the position of every zombie is a defined value in every
\* reachable state, also after a tick in which update_zombies found a zombie
\* exactly on its target point
C21_DefinedPositions == \A z \in DOMAIN zombies : ~z.nan


\* C22: the speed r that update_car_input leaves (the speed after
\* car_manual_input_system less the turbo boost it added) is exactly 0 when
\* back is held and |speed| <= 10, with or without forward held, and when
\* neither is held and |speed| <= 5; back held with forward gives what back
\* alone gives; braking above 10 and coasting beyond 5 move the speed
\* strictly toward 0 without changing its sign; so a car at rest with back
\* held stays at rest, where it is
C22_Snapping ==
  [][IsStep("car_manual_input_system") /\ cars # <<>>
       => LET v == cars[1].speed
              r == cars'[1].speed - (IF 5 * cars[1].turbo < TicksPerSec THEN TURBO_BOOST * SpeedUnit ELSE 0)
              brake == (12 * FRICTION * SpeedUnit * delta) \div (10 * TicksPerSec)
          IN /\ (input.s /\ Abs(v) <= 10 * SpeedUnit => r = 0)
             /\ (~input.s /\ ~input.w /\ Abs(v) <= 5 * SpeedUnit => r = 0)
             /\ (input.s /\ v > 10 * SpeedUnit => r = Min(v - brake, MAX_SPEED * SpeedUnit) /\ r >= 0 /\ r < v)
             /\ (~input.s /\ ~input.w /\ v > 5 * SpeedUnit => r >= 0 /\ r < v)
             /\ (~input.s /\ ~input.w /\ v < -5 * SpeedUnit => r <= 0 /\ r > v)
             /\ (input.s /\ v = 0 /\ r = 0 => cars'[1].x = cars[1].x /\ cars'[1].y = cars[1].y)]_vars

\* C22 witness: in the second of two ticks with back and forward held, the
\* car that was at rest is still at rest where it was
C22_Witness ==
  /\ HasRun("car_manual_input_system") /\ input.s /\ input.w /\ frame = MaxFrames
  /\ cars # <<>> /\ cars[1].speed = 0 /\ cars[1].y = RestingCar.y /\ cars[1].x = RestingCar.x


\* C23: a check_obstacle_collision step sets the speed to exactly -6 when some
\* registered obstacle is within 25 of the car in x and within 25 in y, and
\* leaves the speed as it was when none is or the registry is empty; it never
\* changes the position, the heading, the health, the score or the progress
C23_ObstacleContact ==
  [][IsStep("check_obstacle_collision") /\ cars # <<>>
       => LET c == cars[1]
              contact == \E i \in DOMAIN obstacles :
                           /\ Abs(obstacles[i].x - c.x) <= 25 * PosUnit
                           /\ Abs(obstacles[i].y - c.y) <= 25 * PosUnit
          IN /\ cars'[1].speed = (IF contact THEN -6 * SpeedUnit ELSE c.speed)
             /\ cars' = <<[c EXCEPT !.speed = cars'[1].speed]>>
             /\ UNCHANGED <<car_health, player_score, car_progress, obstacles>>]_vars

\* C23 witness: the car is in contact with an obstacle, check_obstacle_collision
\* has run in this tick and the speed is -6
C23_Witness ==
  /\ HasRun("check_obstacle_collision") /\ cars # <<>> /\ cars[1].speed = -6 * SpeedUnit
  /\ \E i \in DOMAIN obstacles : Abs(obstacles[i].x - cars[1].x) <= 25 * PosUnit /\ Abs(obstacles[i].y - cars[1].y) <= 25 * PosUnit


\* C24: the road tile set and the obstacle registry change only in a state
\* transition: on entering GameInit, where spawn_road leaves exactly the road
\* of the new run in them, and on entering MainMenu or leaving GameOver, where
\* cleanup_previous_game empties them; they are unchanged by every step of
\* InGame, PauseMenu and GameOver and by the transitions between these
C24_RoadWrittenOnce ==
  [][/\ (road_tiles' # road_tiles \/ obstacles' # obstacles)
          => /\ phase = "idle" /\ next_state \notin {"None", state}
             /\ \/ /\ next_state = "GameInit"
                   /\ \E c \in LifeFrames["GameInit"] : road_tiles' = {c.road.walk} /\ obstacles' = ObstaclesOf(c.road)
                \/ /\ next_state = "MainMenu" \/ state = "GameOver"
                   /\ road_tiles' = {} /\ obstacles' = <<>>
     /\ (state \in {"InGame", "PauseMenu", "GameOver"} /\ state' \in {"InGame", "PauseMenu", "GameOver"})
          => UNCHANGED <<road_tiles, obstacles>>]_vars

\* C24 witness: the game over menu of a run is shown and the road and the
\* obstacles of the run are still registered
C24_Witness == state = "GameOver" /\ phase = "update" /\ road_tiles = {PlainRoad.walk} /\ obstacles = ObstaclesOf(PlainRoad)


\* C25: while a run is set up, played or paused there is exactly one vehicle,
\* whether the run was started from the main menu at the start of the
\* application, by Restart after a lost run, from the main menu after a paused
\* run was left, or was resumed from the pause menu
C25_OneVehicle == state \in {"GameInit", "InGame", "PauseMenu"} => Len(cars) = 1

\* C25 witness: the first InGame tick of a run that was started with Restart
\* from the game over menu of a lost run
C25_Witness ==
  /\ state = "InGame" /\ phase = "update" /\ frame = MaxFrames /\ sched # <<>>
  /\ cars = <<NewCar>> /\ road_tiles = {BentRoad.walk}


\* C26: once spawn_road has run, every registered obstacle stands on a lattice
\* point (x, j) with j > 30 that is a road tile of its row: some registered
\* walk has offset <= x <= offset + ROAD_WIDTH in row j
C26_ObstaclesOnRoad ==
  (state = "GameInit" /\ phase = "update")
    => \A i \in DOMAIN obstacles :
         LET o == obstacles[i]
             x == o.x \div TileSize
             j == o.y \div TileSize
         IN /\ o.x % TileSize = 0 /\ o.y % TileSize = 0
            /\ j > 30 /\ j <= TOP_Y
            /\ \E walk \in road_tiles : RowOffset(walk, j) <= x /\ x <= RowOffset(walk, j) + ROAD_WIDTH
            /\ HasTile(road_tiles, x, j)

\* C26 witness: a road that has left column 0 by row 31 carries an obstacle in
\* row 31, in the last column an obstacle can have
C26_Witness ==
  /\ state = "GameInit" /\ phase = "update"
  /\ \E i \in DOMAIN obstacles, walk \in road_tiles :
       /\ obstacles[i].y = 31 * TileSize
       /\ RowOffset(walk, 31) # 0
       /\ obstacles[i].x = (RowOffset(walk, 31) + 3) * TileSize


\* C27: a spawn_zombies step queues zombies only if the number of live zombies
\* is below the whole part of min(cap, cap * progress + 5), that is if
\* live + 1 <= cap and live + 1 <= cap * progress + 5, and then it queues
\* exactly 50; it queues none when that limit is 0 or negative; and the number
\* of live zombies never exceeds cap + 49
C27_PopulationCap ==
  [][/\ BagSize(zombies') <= get_num_max_zombies(settings') + 49
     /\ (IsStep("spawn_zombies") /\ cars # <<>>)
          => LET cap == get_num_max_zombies(settings)
                 live == BagSize(zombies)
                 below == live + 1 <= cap /\ (live + 1 - 5) * TOTAL_H <= cap * car_progress
             IN /\ below => BagSize(cmd_spawn'.zombies) = BagSize(cmd_spawn.zombies) + 50
                /\ ~below => cmd_spawn' = cmd_spawn
                /\ cap * car_progress + 5 * TOTAL_H <= 0 => cmd_spawn' = cmd_spawn]_vars

\* C27 witness: one zombie was missing to the cap and a batch has been spawned:
\* cap + 49 zombies are alive
C27_Witness ==
  /\ state = "InGame" /\ phase = "idle"
  /\ BagSize(zombies) = get_num_max_zombies(settings) + 49


\* C28 (as claimed): the message of the game over menu matches the cause:
\* "You Survived!" only with progress >= 1.0, the wrong-way message only with
\* progress < -0.1, and "You got Mauled" whenever the run ended with the
\* health at or below 0
C28_OutcomeMatchesCause ==
  state = "GameOver"
    => LET message == setup_game_over_menu(car_progress)
       IN /\ message = "You Survived!" => car_progress >= TOTAL_H
          /\ message = "Zombies that way ;)\nGo north!" => 10 * car_progress < 0 - TOTAL_H
          /\ car_health <= 0 => message = "You got Mauled"


\* C29: when setup_game and spawn_road have run, the vehicle stands at
\* (150, 50) and the surface test of car_manual_input_system holds there,
\* whatever the walk of the road: the offset of the rows 0 to 4 is the sum of
\* the first two draws and lies in -2..2
C29_StartsOnRoad ==
  (state = "GameInit" /\ phase = "update")
    => /\ cars = <<NewCar>>
       /\ cars[1].x = 150 * PosUnit /\ cars[1].y = 50 * PosUnit
       /\ is_on_road(road_tiles, cars[1].x, cars[1].y)
       /\ \A walk \in road_tiles : \A j \in 0..4 :
            /\ RowOffset(walk, j) = WalkDraw(walk, 0) + WalkDraw(walk, 1)
            /\ RowOffset(walk, j) \in -2..2

\* C29 witness: the road has moved two columns to the right by row 0, and the
\* new vehicle is on it
C29_Witness ==
  /\ state = "GameInit" /\ phase = "update" /\ cars = <<NewCar>>
  /\ \E walk \in road_tiles : RowOffset(walk, 0) = 2
  /\ is_on_road(road_tiles, NewCar.x, NewCar.y)


=============================================================================
